---- MODULE Spec2Model ----
(***************************************************************************)
(* Repository analysis pipeline of backend/main.py: the /analyze handler   *)
(* (clone, five analysis components, profile assembly, profile store,      *)
(* cleanup of the clone) and the /chat lookup of the profile store.        *)
(*                                                                         *)
(* Text is a sequence of one-character strings, so that the string         *)
(* operations of the code (startswith, endswith, split, lower, comparison, *)
(* regular-expression search) are computed and not assumed.                *)
(***************************************************************************)
EXTENDS Integers, Sequences, FiniteSets, TLC

\* ------------------------------------------------------------------ bounds

\* Number of /analyze requests served, one after the other.
MaxAnalyses == 2
\* Number of runs of the pipeline over one directory.
MaxRuns == 2
\* Symbolic links the operating system resolves in one path before it fails
\* with ELOOP (40 on Linux).
SymlinkHopLimit == 2

\* ------------------------------------------------------- program constants

\* deps[:50]
DEP_LIMIT == 50

\* ------------------------------------------------------------- Python text

\* ord(): code points of the printable ASCII characters.
Ord ==
    " " :> 32 @@ "\"" :> 34 @@ "'" :> 39 @@ "-" :> 45 @@ "." :> 46 @@ "/" :> 47 @@
    "0" :> 48 @@ "1" :> 49 @@ "2" :> 50 @@ "3" :> 51 @@ "4" :> 52 @@ "5" :> 53 @@
    "6" :> 54 @@ "7" :> 55 @@ "8" :> 56 @@ "9" :> 57 @@ ":" :> 58 @@ "=" :> 61 @@
    ">" :> 62 @@ "A" :> 65 @@ "B" :> 66 @@ "C" :> 67 @@ "D" :> 68 @@ "E" :> 69 @@
    "F" :> 70 @@ "G" :> 71 @@ "H" :> 72 @@ "I" :> 73 @@ "J" :> 74 @@ "K" :> 75 @@
    "L" :> 76 @@ "M" :> 77 @@ "N" :> 78 @@ "O" :> 79 @@ "P" :> 80 @@ "Q" :> 81 @@
    "R" :> 82 @@ "S" :> 83 @@ "T" :> 84 @@ "U" :> 85 @@ "V" :> 86 @@ "W" :> 87 @@
    "X" :> 88 @@ "Y" :> 89 @@ "Z" :> 90 @@ "^" :> 94 @@ "_" :> 95 @@ "a" :> 97 @@
    "b" :> 98 @@ "c" :> 99 @@ "d" :> 100 @@ "e" :> 101 @@ "f" :> 102 @@ "g" :> 103 @@
    "h" :> 104 @@ "i" :> 105 @@ "j" :> 106 @@ "k" :> 107 @@ "l" :> 108 @@ "m" :> 109 @@
    "n" :> 110 @@ "o" :> 111 @@ "p" :> 112 @@ "q" :> 113 @@ "r" :> 114 @@ "s" :> 115 @@
    "t" :> 116 @@ "u" :> 117 @@ "v" :> 118 @@ "w" :> 119 @@ "x" :> 120 @@ "y" :> 121 @@
    "z" :> 122 @@ "~" :> 126

\* Optional[T]: None, or a value.
None == <<>>
Some(v) == <<v>>

\* str.startswith / str.endswith
StartsWith(s, p) == Len(s) >= Len(p) /\ SubSeq(s, 1, Len(p)) = p
EndsWith(s, p) == Len(s) >= Len(p) /\ SubSeq(s, Len(s) - Len(p) + 1, Len(s)) = p

\* p in s (substring)
Contains(s, p) == \E i \in 1..(Len(s) - Len(p) + 1) : SubSeq(s, i, i + Len(p) - 1) = p

\* str < str: by code point, a proper prefix first.
StrLess(a, b) ==
    \E i \in 1..(Len(b)) :
        /\ i <= Len(a) + 1
        /\ SubSeq(a, 1, i - 1) = SubSeq(b, 1, i - 1)
        /\ (i = Len(a) + 1 \/ Ord[a[i]] < Ord[b[i]])

\* str.lower() on ASCII
LowerChar(c) == IF Ord[c] >= 65 /\ Ord[c] <= 90
                THEN CHOOSE d \in DOMAIN Ord : Ord[d] = Ord[c] + 32
                ELSE c
Lower(s) == [i \in 1..Len(s) |-> LowerChar(s[i])]

\* names and literals of the code
s_pycache == <<"_", "_", "p", "y", "c", "a", "c", "h", "e", "_", "_">>
s_dot == <<".">>
s_png == <<".", "p", "n", "g">>
s_jpg == <<".", "j", "p", "g">>
s_lock == <<".", "l", "o", "c", "k">>
s_package_json == <<"p", "a", "c", "k", "a", "g", "e", ".", "j", "s", "o", "n">>
s_requirements_txt == <<"r", "e", "q", "u", "i", "r", "e", "m", "e", "n", "t", "s", ".", "t", "x", "t">>
s_env_example == <<".", "e", "n", "v", ".", "e", "x", "a", "m", "p", "l", "e">>
s_env == <<".", "e", "n", "v">>
s_package_lock == <<"p", "a", "c", "k", "a", "g", "e", "-", "l", "o", "c", "k", ".", "j", "s", "o", "n">>
s_next == <<"n", "e", "x", "t">>
s_react == <<"r", "e", "a", "c", "t">>
s_django == <<"d", "j", "a", "n", "g", "o">>
s_fastapi == <<"f", "a", "s", "t", "a", "p", "i">>
s_16 == <<"1", "6">>
s_eqeq == <<"=", "=">>
s_latest == <<"l", "a", "t", "e", "s", "t">>
s_slash == <<"/">>

\* ------------------------------------------------------------ file system
\* A cloned directory tree.  fs.dirs maps a directory id to its entries; an
\* entry is a record
\*   name     : the entry's name
\*   kind     : "file" or "dir", what the entry (or a link's target) is
\*   link     : TRUE for a symbolic link
\*   exists   : FALSE for a dangling link
\*   dir      : the directory id (kind "dir")
\*   readable : open() succeeds (kind "file")
\*   lines    : the text lines of the file (kind "file")
\* fs.listable[d] is FALSE when os.scandir(d) raises PermissionError.

File(n, ls) ==
    [name |-> n, kind |-> "file", link |-> FALSE, exists |-> TRUE, dir |-> "",
     binary |-> FALSE, readable |-> TRUE, lines |-> ls]
Unreadable(n) ==
    [name |-> n, kind |-> "file", link |-> FALSE, exists |-> TRUE, dir |-> "",
     binary |-> FALSE, readable |-> FALSE, lines |-> <<>>]
\* a file that is not text; ls are the lines that reading it with
\* errors='ignore' gives
Binary(n, ls) ==
    [name |-> n, kind |-> "file", link |-> FALSE, exists |-> TRUE, dir |-> "",
     binary |-> TRUE, readable |-> TRUE, lines |-> ls]
\* a file with content that open() refuses
Locked(n, ls) ==
    [name |-> n, kind |-> "file", link |-> FALSE, exists |-> TRUE, dir |-> "",
     binary |-> FALSE, readable |-> FALSE, lines |-> ls]
Dir(n, d) ==
    [name |-> n, kind |-> "dir", link |-> FALSE, exists |-> TRUE, dir |-> d,
     binary |-> FALSE, readable |-> FALSE, lines |-> <<>>]
LinkToDir(n, d) ==
    [name |-> n, kind |-> "dir", link |-> TRUE, exists |-> TRUE, dir |-> d,
     binary |-> FALSE, readable |-> FALSE, lines |-> <<>>]
LinkToFile(n, ls) ==
    [name |-> n, kind |-> "file", link |-> TRUE, exists |-> TRUE, dir |-> "",
     binary |-> FALSE, readable |-> TRUE, lines |-> ls]
DanglingLink(n) ==
    [name |-> n, kind |-> "file", link |-> TRUE, exists |-> FALSE, dir |-> "",
     binary |-> FALSE, readable |-> FALSE, lines |-> <<>>]

\* os.scandir yields the entries of a directory in arbitrary order: an
\* enumeration gives every directory one order of its entries.
Perms(S) ==
    {p \in [1..Cardinality(S) -> S] : \A i, j \in 1..Cardinality(S) : p[i] = p[j] => i = j}
RECURSIVE Choices(_, _)
Choices(f, D) ==
    IF D = {} THEN {[x \in {} |-> x]}
    ELSE LET d == CHOOSE x \in D : TRUE
         IN  {(d :> p) @@ g : p \in f[d], g \in Choices(f, D \ {d})}
Enumerations(fs) == Choices([d \in DOMAIN fs.dirs |-> Perms(fs.dirs[d])], DOMAIN fs.dirs)

\* DirEntry.is_dir(): follows symbolic links; FileNotFoundError gives False.
is_dir(e) == e.exists /\ e.kind = "dir"

\* ------------------------------------------------------------ Tree Walker

FileNode(n, t, ch, l) == [name |-> n, type |-> t, children |-> ch, loc |-> l]

\* for comparison: a count that takes the file to be readable
LineCountStrict(e) == Len(e.lines)

\* loc = sum(1 for _ in f), 0 when open() raises
LineCount(e) == IF e.exists /\ e.readable THEN Len(e.lines) ELSE 0

\* for comparison: a key that ignores the case of the name
SortKeyIgnoringCase(a, b) ==
    \/ a.type = "folder" /\ b.type # "folder"
    \/ (a.type = "folder") = (b.type = "folder") /\ StrLess(Lower(a.name), Lower(b.name))

\* key=lambda x: (x.type != 'folder', x.name)
SortKeyLess(a, b) ==
    \/ a.type = "folder" /\ b.type # "folder"
    \/ (a.type = "folder") = (b.type = "folder") /\ StrLess(a.name, b.name)

\* list.sort(key=...): a stable sort, here by insertion.
RECURSIVE InsertSorted(_, _)
InsertSorted(sorted, x) ==
    IF sorted = <<>> THEN <<x>>
    ELSE IF SortKeyLess(x, sorted[Len(sorted)])
         THEN Append(InsertSorted(SubSeq(sorted, 1, Len(sorted) - 1), x), sorted[Len(sorted)])
         ELSE Append(sorted, x)
RECURSIVE SortChildren(_)
SortChildren(ch) ==
    IF ch = <<>> THEN <<>>
    ELSE InsertSorted(SortChildren(SubSeq(ch, 1, Len(ch) - 1)), ch[Len(ch)])

\* entry.name.startswith('.') or entry.name == "__pycache__"
WalkerSkips(e) == StartsWith(e.name, s_dot) \/ e.name = s_pycache

\* entry.is_dir() of the walker: the branch that recurses.
WalkerRecurses(e) == is_dir(e)

\* get_file_structure(root_dir): [ok |-> TRUE, node |-> the tree], or
\* [ok |-> FALSE] when an exception other than PermissionError leaves it.
\* hops counts the symbolic links in root_dir's path: resolving more than
\* SymlinkHopLimit of them raises OSError (ELOOP), which is not caught.
RECURSIVE get_file_structure(_, _, _, _, _)
get_file_structure(fs, d, name, order, hops) ==
    LET entries == IF fs.listable[d] THEN order[d] ELSE <<>>
        kept == SelectSeq(entries, LAMBDA e : ~WalkerSkips(e))
        eloop(e) == e.link /\ e.exists /\ hops + 1 > SymlinkHopLimit
        child(e) ==
            IF eloop(e) THEN [ok |-> FALSE, node |-> FileNode(e.name, "file", None, None)]
            ELSE IF WalkerRecurses(e)
            THEN get_file_structure(fs, e.dir, e.name, order,
                                    IF e.link THEN hops + 1 ELSE hops)
            ELSE [ok |-> TRUE, node |-> FileNode(e.name, "file", None, Some(LineCount(e)))]
        results == [i \in 1..Len(kept) |-> child(kept[i])]
        children == [i \in 1..Len(kept) |-> results[i].node]
    IN  [ok |-> \A i \in 1..Len(kept) : results[i].ok,
         node |-> FileNode(name, "folder", Some(SortChildren(children)), None)]

\* --------------------------------------------------------- Secret Scanner
\* A pattern is a sequence of items [cls, min, max]: between min and max
\* characters of the class cls (max = -1: unbounded).
One(cls) == [cls |-> cls, min |-> 1, max |-> 1]
Star(cls) == [cls |-> cls, min |-> 0, max |-> -1]
Plus(cls) == [cls |-> cls, min |-> 1, max |-> -1]
Rep(cls, lo, hi) == [cls |-> cls, min |-> lo, max |-> hi]
Lit(s) == [i \in 1..Len(s) |-> One({s[i]})]

WhiteSpace == {" "}
Quote == {"'", "\""}
Digits == {c \in DOMAIN Ord : Ord[c] >= 48 /\ Ord[c] <= 57}
Uppers == {c \in DOMAIN Ord : Ord[c] >= 65 /\ Ord[c] <= 90}
Lowers == {c \in DOMAIN Ord : Ord[c] >= 97 /\ Ord[c] <= 122}

\* the pattern matches line from position i on
RECURSIVE MatchFrom(_, _, _, _)
MatchFrom(pat, k, line, i) ==
    IF k > Len(pat) THEN TRUE
    ELSE LET it == pat[k]
             rest == Len(line) - i + 1
             hi == IF it.max = -1 \/ it.max > rest THEN rest ELSE it.max
         IN  \E n \in it.min..hi :
                /\ \A j \in i..(i + n - 1) : line[j] \in it.cls
                /\ MatchFrom(pat, k + 1, line, i + n)

\* re.search(pat, line)
re_search(pat, line) == \E i \in 1..(Len(line) + 1) : MatchFrom(pat, 1, line, i)

\* the patterns dict, in insertion order
patterns == <<
    [pat |-> Lit(<<"A", "W", "S", "_", "A", "C", "C", "E", "S", "S", "_", "K", "E", "Y", "_", "I", "D">>) \o
             <<Star(WhiteSpace), One({"="}), Star(WhiteSpace), One(Quote),
               Rep(Uppers \cup Digits, 20, 20), One(Quote)>>,
     desc |-> "Potential AWS Access Key"],
    [pat |-> Lit(<<"A", "u", "t", "h", "o", "r", "i", "z", "a", "t", "i", "o", "n">>) \o
             <<Star(WhiteSpace), One({":"}), Star(WhiteSpace), One(Quote)>> \o
             Lit(<<"B", "e", "a", "r", "e", "r">>) \o <<Plus(WhiteSpace)>> \o Lit(<<"e", "y">>),
     desc |-> "Hardcoded JWT Token"],
    [pat |-> Lit(<<"a", "p", "i", "_", "k", "e", "y">>) \o
             <<Star(WhiteSpace), One({"="}), Star(WhiteSpace), One(Quote),
               Rep(Lowers \cup Uppers \cup Digits, 20, -1), One(Quote)>>,
     desc |-> "Hardcoded API Key"] >>

SecurityIssue(f, l, d) == [severity |-> "high", file |-> f, line |-> l, description |-> d]

\* for comparison: a scanner that skips hidden files only
ScannerSkipsHidden(n) == StartsWith(n, s_dot)

\* file.startswith('.') or file.endswith(('.png', '.jpg', '.lock'))
ScannerSkips(n) ==
    StartsWith(n, s_dot) \/ EndsWith(n, s_png) \/ EndsWith(n, s_jpg) \/ EndsWith(n, s_lock)

\* os.path.relpath(os.path.join(root, file), root_dir)
RelPath(prefix, n) == IF prefix = <<>> THEN n ELSE prefix \o s_slash \o n

RECURSIVE Flatten(_)
Flatten(ss) == IF ss = <<>> THEN <<>> ELSE Head(ss) \o Flatten(Tail(ss))

\* the findings of one line: every pattern that matches, in dict order
LineIssues(rel, i, line) ==
    Flatten([p \in 1..Len(patterns) |->
        IF re_search(patterns[p].pat, line)
        THEN <<SecurityIssue(rel, i, patterns[p].desc)>> ELSE <<>>])

\* the findings of one file; a file that cannot be opened gives none
FileIssues(prefix, e) ==
    IF ScannerSkips(e.name) \/ ~(e.exists /\ e.readable) THEN <<>>
    ELSE Flatten([i \in 1..Len(e.lines) |-> LineIssues(RelPath(prefix, e.name), i, e.lines[i])])

\* os.walk(root_dir), top-down, followlinks=False: the files of a directory
\* in enumeration order, then its subdirectories in enumeration order;
\* symbolic links to directories are listed as directories and not entered;
\* a directory that cannot be listed is skipped.
RECURSIVE WalkIssues(_, _, _, _)
WalkIssues(fs, d, prefix, order) ==
    LET entries == IF fs.listable[d] THEN order[d] ELSE <<>>
        files == SelectSeq(entries, LAMBDA e : ~is_dir(e))
        dirs == SelectSeq(entries, LAMBDA e : is_dir(e) /\ ~e.link)
    IN  Flatten([i \in 1..Len(files) |-> FileIssues(prefix, files[i])]) \o
        Flatten([i \in 1..Len(dirs) |->
                    WalkIssues(fs, dirs[i].dir, RelPath(prefix, dirs[i].name), order)])

analyze_security(fs, order) == WalkIssues(fs, fs.root, <<>>, order)

\* ---------------------------------------- Environment & Dependency Detector

\* the entry called n in the root directory, as a sequence of at most one
RootEntry(fs, n) ==
    LET found == {e \in fs.dirs[fs.root] : e.name = n}
    IN  IF found = {} THEN None ELSE Some(CHOOSE e \in found : TRUE)

\* os.path.exists(os.path.join(root_dir, n)): FALSE for a dangling link
PathExists(fs, n) == RootEntry(fs, n) # None /\ RootEntry(fs, n)[1].exists

\* open(path) succeeds: a readable file
CanOpen(fs, n) ==
    PathExists(fs, n) /\ RootEntry(fs, n)[1].kind = "file" /\ RootEntry(fs, n)[1].readable

\* fs.pkg is what json.load gives for package.json:
\*   parses : FALSE when json.load raises
\*   dependencies, devDependencies : the entries of the two maps in file
\*     order, each [name, ver, isstr]; isstr is FALSE for a version that is
\*     not a JSON string (ver.replace then raises AttributeError)
DictNames(m) == {m[i].name : i \in 1..Len(m)}

\* {**a, **b}: the keys of a in order, with the values of b where b has the
\* key too, then the keys only b has.
DictMerge(a, b) ==
    [i \in 1..Len(a) |->
        IF a[i].name \in DictNames(b)
        THEN CHOOSE x \in {b[j] : j \in 1..Len(b)} : x.name = a[i].name
        ELSE a[i]] \o
    SelectSeq(b, LAMBDA x : x.name \notin DictNames(a))

\* ver.replace('^', '').replace('~', '')
CleanVer(ver) == SelectSeq(ver, LAMBDA c : c # "^" /\ c # "~")

\* name == 'react' and clean_ver.startswith('16')
IsDeprecated(name, ver) == name = s_react /\ StartsWith(CleanVer(ver), s_16)

JsDep(x) ==
    [name |-> x.name, version |-> x.ver, type |-> "prod",
     is_deprecated |-> IsDeprecated(x.name, x.ver)]

\* the records appended before the loop leaves by an exception
JsDeps(all_deps) ==
    LET bad == {i \in 1..Len(all_deps) : ~all_deps[i].isstr}
        n == IF bad = {} THEN Len(all_deps)
             ELSE (CHOOSE i \in bad : \A j \in bad : i <= j) - 1
    IN  [i \in 1..n |-> JsDep(all_deps[i])]

JsFramework(all_deps, prior) ==
    IF s_next \in DictNames(all_deps) THEN "Next.js"
    ELSE IF s_react \in DictNames(all_deps) THEN "React"
    ELSE prior

\* str.strip()
RECURSIVE LStrip(_)
LStrip(s) == IF s # <<>> /\ Head(s) \in WhiteSpace THEN LStrip(Tail(s)) ELSE s
RECURSIVE RStrip(_)
RStrip(s) ==
    IF s # <<>> /\ s[Len(s)] \in WhiteSpace THEN RStrip(SubSeq(s, 1, Len(s) - 1)) ELSE s
Strip(s) == RStrip(LStrip(s))

\* str.split(sep)
RECURSIVE Split(_, _)
Split(s, sep) ==
    LET at == {i \in 1..(Len(s) - Len(sep) + 1) : SubSeq(s, i, i + Len(sep) - 1) = sep}
    IN  IF at = {} THEN <<s>>
        ELSE LET i == CHOOSE i \in at : \A j \in at : i <= j
             IN  <<SubSeq(s, 1, i - 1)>> \o Split(SubSeq(s, i + Len(sep), Len(s)), sep)

PyDep(line) ==
    LET parts == Split(Strip(line), s_eqeq)
    IN  [name |-> parts[1],
         version |-> IF Len(parts) > 1 THEN parts[2] ELSE s_latest,
         type |-> "prod"]

\* the line assigns env["framework"]
PyLineSets(line) ==
    LET name == Lower(PyDep(line).name)
    IN  Contains(name, s_django) \/ Contains(name, s_fastapi)

\* the framework after one requirements line: the django test, then the
\* fastapi test, each an if of its own
PyLineFramework(line, prior) ==
    LET name == Lower(PyDep(line).name)
        f1 == IF Contains(name, s_django) THEN "Django" ELSE prior
    IN  IF Contains(name, s_fastapi) THEN "FastAPI" ELSE f1

\* the framework after the loop over the lines: what the last line that
\* assigns it leaves
PyFramework(lines, prior) ==
    LET hits == {i \in 1..Len(lines) : PyLineSets(lines[i])}
    IN  IF hits = {} THEN prior
        ELSE PyLineFramework(lines[CHOOSE i \in hits : \A j \in hits : j <= i], prior)

DefaultEnv ==
    [language |-> "Unknown", framework |-> "Unknown", buildSystem |-> "Unknown",
     nodeVersion |-> "Unknown"]

\* the package.json block
JsManifest(fs, env, deps) ==
    IF ~PathExists(fs, s_package_json) THEN [env |-> env, deps |-> deps]
    ELSE LET env1 == [env EXCEPT !.language = "JavaScript/TypeScript", !.buildSystem = "npm"]
         IN  IF ~(CanOpen(fs, s_package_json) /\ fs.pkg.parses)
             THEN [env |-> env1, deps |-> deps]
             ELSE LET all_deps == DictMerge(fs.pkg.dependencies, fs.pkg.devDependencies)
                  IN  [env |-> [env1 EXCEPT !.framework = JsFramework(all_deps, env1.framework)],
                       deps |-> deps \o JsDeps(all_deps)]

\* the requirements.txt block
PyManifest(fs, env, deps) ==
    IF ~PathExists(fs, s_requirements_txt) THEN [env |-> env, deps |-> deps]
    ELSE LET env1 == [env EXCEPT !.language = "Python", !.buildSystem = "pip"]
         IN  IF ~CanOpen(fs, s_requirements_txt)
             THEN [env |-> env1, deps |-> deps]
             ELSE LET lines == RootEntry(fs, s_requirements_txt)[1].lines
                  IN  [env |-> [env1 EXCEPT !.framework = PyFramework(lines, env1.framework)],
                       deps |-> deps \o [i \in 1..Len(lines) |-> PyDep(lines[i])]]

\* analyze_environment_and_deps(root_dir): [env, deps]
analyze_environment_and_deps(fs) ==
    LET js == JsManifest(fs, DefaultEnv, <<>>)
    IN  PyManifest(fs, js.env, js.deps)

\* --------------------------------------------------------- Startup Auditor

StartupIssue(t, ti, d, f) == [type |-> t, title |-> ti, description |-> d, fix |-> f]

\* os.listdir(root_dir): the names of all entries
ListDir(fs) == {e.name : e \in fs.dirs[fs.root]}

\* for comparison: the lockfile rule as an elif of the .env rule
analyze_startup_elif(fs, env) ==
    LET files == ListDir(fs)
    IN  [ok |-> fs.listable[fs.root],
         issues |->
            IF s_env_example \in files /\ s_env \notin files
            THEN <<StartupIssue("error", "Missing Config", "Missing .env file",
                                "cp .env.example .env")>>
            ELSE IF env.language = "JavaScript/TypeScript" /\ s_package_lock \notin files
            THEN <<StartupIssue("warning", "No Lockfile", "Inconsistent builds",
                                "npm install")>>
            ELSE <<>>]

\* analyze_startup(root_dir, env): [ok |-> TRUE, issues], or [ok |-> FALSE]
\* when os.listdir raises
analyze_startup(fs, env) ==
    LET files == ListDir(fs)
        r1 == IF s_env_example \in files /\ s_env \notin files
              THEN <<StartupIssue("error", "Missing Config", "Missing .env file",
                                  "cp .env.example .env")>>
              ELSE <<>>
        r2 == IF env.language = "JavaScript/TypeScript" /\ s_package_lock \notin files
              THEN <<StartupIssue("warning", "No Lockfile", "Inconsistent builds",
                                  "npm install")>>
              ELSE <<>>
    IN  [ok |-> fs.listable[fs.root], issues |-> r1 \o r2]

\* --------------------------------------------------------- Task Synthesizer

\* for comparison: an empty list for a language that is not known
generate_tasks_bare(env) ==
    IF env.language = "JavaScript/TypeScript"
    THEN <<"git clone <repo>", "npm install", "npm run dev">>
    ELSE IF env.language = "Python"
    THEN <<"git clone <repo>", "python -m venv venv", "source venv/bin/activate",
           "pip install -r requirements.txt">>
    ELSE <<>>

generate_tasks(env) ==
    <<"git clone <repo>">> \o
    (IF env.language = "JavaScript/TypeScript" THEN <<"npm install", "npm run dev">>
     ELSE IF env.language = "Python"
     THEN <<"python -m venv venv", "source venv/bin/activate",
            "pip install -r requirements.txt">>
     ELSE <<>>)

\* ------------------------------------------------------- profile assembly

\* deps without the slice, for comparison
AllDeps(deps) == deps

\* deps[:50]
BoundDeps(deps) == SubSeq(deps, 1, IF Len(deps) < DEP_LIMIT THEN Len(deps) ELSE DEP_LIMIT)

\* AnalysisResult(repo_id=..., environment=env, dependencies=deps[:50], ...)
AnalysisResult(repo_id, env, deps, structure, tasks, security, startup) ==
    [repo_id |-> repo_id, environment |-> env, dependencies |-> BoundDeps(deps),
     structure |-> structure, tasks |-> tasks, security |-> security,
     startup_issues |-> startup]

\* FileNode.dict(): the node as a dict, its children converted too
RECURSIVE NodeDict(_)
NodeDict(n) ==
    [name |-> n.name, type |-> n.type,
     children |-> IF n.children = None THEN None
                  ELSE Some([i \in 1..Len(n.children[1]) |-> NodeDict(n.children[1][i])]),
     loc |-> n.loc]

\* result.dict()
ResultDict(result) ==
    [repo_id |-> result.repo_id, environment |-> result.environment,
     dependencies |-> result.dependencies, structure |-> NodeDict(result.structure),
     tasks |-> result.tasks, security |-> result.security,
     startup_issues |-> result.startup_issues]

\* ------------------------------------------------------------ repositories
\* The directory trees a clone can produce.

NoPkg == [parses |-> FALSE, dependencies |-> <<>>, devDependencies |-> <<>>]
Pkg(deps, dev) == [parses |-> TRUE, dependencies |-> deps, devDependencies |-> dev]
Ver(n, v) == [name |-> n, ver |-> v, isstr |-> TRUE]

l_comment == <<"#", " ", "s", "e", "t", "t", "i", "n", "g", "s">>
l_aws == <<"A", "W", "S", "_", "A", "C", "C", "E", "S", "S", "_", "K", "E", "Y", "_", "I", "D", " ", "=", " ", "\"", "A", "K", "I", "A", "A", "B", "C", "D", "E", "F", "G", "H", "I", "J", "K", "L", "M", "N", "O", "P", "\"">>
l_jwt == <<"h", "e", "a", "d", "e", "r", "s", " ", "=", " ", "{", "A", "u", "t", "h", "o", "r", "i", "z", "a", "t", "i", "o", "n", ":", " ", "\"", "B", "e", "a", "r", "e", "r", " ", "e", "y", "J", "h", "b", "G", "c", "i", "O", "i", "\"", "}">>
l_apikey == <<"a", "p", "i", "_", "k", "e", "y", " ", "=", " ", "'", "a", "b", "c", "d", "e", "f", "g", "h", "i", "j", "0", "1", "2", "3", "4", "5", "6", "7", "8", "9", "'">>
l_json == <<"{", "}">>

DigitChar(n) == CHOOSE c \in Digits : Ord[c] = 48 + n
\* the i-th line of a generated requirements.txt: pNN==1.0
ReqLine(i) == <<"p", DigitChar(i \div 10), DigitChar(i % 10)>> \o <<"=", "=", "1", ".", "0">>

\* package.json (next), two source files with a secret each
RepoJs ==
    [root |-> "root",
     dirs |-> [root |-> {File(s_package_json, <<l_json>>),
                         File(<<"a", ".", "p", "y">>, <<l_comment, l_aws>>),
                         File(<<"c", ".", "p", "y">>, <<l_jwt>>)}],
     listable |-> [root |-> TRUE],
     pkg |-> Pkg(<<Ver(s_next, <<"1", "4", ".", "1", ".", "0">>)>>, <<>>)]

\* requirements.txt with n generated lines, after a fastapi line
RepoPy(n) ==
    [root |-> "root",
     dirs |-> [root |-> {File(s_requirements_txt,
                              <<<<"f", "a", "s", "t", "a", "p", "i", "=", "=", "0", ".", "1", "0", "9", ".", "0">>>> \o [i \in 1..n |-> ReqLine(i)]),
                         File(s_env_example, <<l_comment>>)}],
     listable |-> [root |-> TRUE],
     pkg |-> NoPkg]

\* a symbolic link to the root itself
RepoLoop ==
    [root |-> "root",
     dirs |-> [root |-> {LinkToDir(<<"l", "o", "o", "p">>, "root"), File(<<"f", ".", "t", "x", "t">>, <<l_comment>>)}],
     listable |-> [root |-> TRUE],
     pkg |-> NoPkg]

\* a symbolic link to a directory outside the clone
RepoOutside ==
    [root |-> "root",
     dirs |-> [root |-> {LinkToDir(<<"e", "t", "c">>, "outside"), File(<<"m", "a", "i", "n", ".", "p", "y">>, <<l_apikey>>)},
               outside |-> {File(<<"p", "a", "s", "s", "w", "d">>, <<l_comment, l_comment>>)}],
     listable |-> [root |-> TRUE, outside |-> TRUE],
     pkg |-> NoPkg]

\* hidden and cache directories, an unreadable file, a directory that
\* cannot be listed, names in both cases
RepoHidden ==
    [root |-> "root",
     dirs |-> [root |-> {Dir(<<".", "g", "i", "t">>, "git"), Dir(s_pycache, "cache"), Dir(<<"s", "r", "c">>, "src")},
               git |-> {File(<<"c", "o", "n", "f", "i", "g">>, <<l_apikey>>)},
               cache |-> {File(<<"m", ".", "p", "y">>, <<l_aws>>)},
               src |-> {File(<<"B", ".", "p", "y">>, <<l_aws, l_apikey>>), File(<<"a", ".", "p", "y">>, <<>>),
                        Locked(<<"k", ".", "p", "e", "m">>, <<l_aws, l_comment>>)}],
     listable |-> [root |-> TRUE, git |-> TRUE, cache |-> TRUE, src |-> TRUE],
     pkg |-> NoPkg]

RepoDenied ==
    [root |-> "root",
     dirs |-> [root |-> {Dir(<<"p", "r", "i", "v", "a", "t", "e">>, "private"), DanglingLink(<<"g", "o", "n", "e">>),
                         File(<<"l", "o", "g", "o", ".", "p", "n", "g">>, <<l_aws>>)},
               private |-> {File(<<"x", ".", "p", "y">>, <<l_aws>>)}],
     listable |-> [root |-> TRUE, private |-> FALSE],
     pkg |-> NoPkg]

\* folders and files side by side, names in both cases, one a prefix of
\* another
RepoMixed ==
    [root |-> "root",
     dirs |-> [root |-> {File(<<"a", ".", "p", "y">>, <<l_comment>>), Dir(<<"s", "r", "c">>, "src"),
                         File(<<"M", "a", "k", "e", "f", "i", "l", "e">>, <<>>), Dir(<<"L", "i", "b">>, "lib"), Dir(<<"d", "o", "c", "s">>, "docs"),
                         File(<<"a", ".", "p", "y", "c">>, <<>>)},
               src |-> {File(<<"z", ".", "p", "y">>, <<>>), Dir(<<"p", "k", "g">>, "pkg")},
               lib |-> {},
               docs |-> {File(<<"i", "n", "d", "e", "x", ".", "m", "d">>, <<l_comment>>)},
               pkg |-> {}],
     listable |-> [root |-> TRUE, src |-> TRUE, lib |-> TRUE, docs |-> TRUE, pkg |-> TRUE],
     pkg |-> NoPkg]

l_aws_tight == <<"A", "W", "S", "_", "A", "C", "C", "E", "S", "S", "_", "K", "E", "Y", "_", "I", "D", "=", "'", "A", "K", "I", "A", "0", "1", "2", "3", "4", "5", "6", "7", "8", "9", "A", "B", "C", "D", "E", "F", "'">>
l_aws_short == <<"A", "W", "S", "_", "A", "C", "C", "E", "S", "S", "_", "K", "E", "Y", "_", "I", "D", " ", "=", " ", "\"", "A", "K", "I", "A", "A", "B", "C", "D", "E", "F", "G", "H", "I", "J", "K", "L", "M", "N", "O", "\"">>

\* the AWS key line in a script, in a binary file, in files with the
\* extensions the scanner leaves out, in a hidden file and in a file below
\* the root
RepoSecrets ==
    [root |-> "root",
     dirs |-> [root |-> {File(<<"d", "e", "p", "l", "o", "y", ".", "s", "h">>, <<l_comment, l_aws_short, l_aws>>),
                         Binary(<<"b", "l", "o", "b", ".", "b", "i", "n">>, <<l_aws>>),
                         File(<<"s", "h", "o", "t", ".", "p", "n", "g">>, <<l_aws>>),
                         File(<<"y", "a", "r", "n", ".", "l", "o", "c", "k">>, <<l_comment, l_aws>>),
                         Dir(<<"c", "o", "n", "f">>, "conf")},
               conf |-> {File(<<".", "e", "n", "v">>, <<l_aws>>), File(<<"a", "w", "s", ".", "c", "f", "g">>, <<l_aws_tight>>),
                         File(<<"p", "h", "o", "t", "o", ".", "j", "p", "g">>, <<l_aws>>)}],
     listable |-> [root |-> TRUE, conf |-> TRUE],
     pkg |-> NoPkg]

\* both manifests; react pinned to 16 under dependencies and devDependencies
RepoBoth ==
    [root |-> "root",
     dirs |-> [root |-> {File(s_package_json, <<l_json>>),
                         File(s_requirements_txt, <<<<"D", "j", "a", "n", "g", "o", "=", "=", "4", ".", "2">>, <<>>, <<"u", "v", "i", "c", "o", "r", "n">>>>),
                         File(s_package_lock, <<l_json>>)}],
     listable |-> [root |-> TRUE],
     pkg |-> Pkg(<<Ver(s_react, <<"^", "1", "6", ".", "2", ".", "0">>), Ver(<<"a", "x", "i", "o", "s">>, <<"~", "1", ".", "6", ".", "0">>)>>,
                 <<Ver(s_react, <<"^", "1", "8", ".", "0", ".", "0">>), Ver(<<"j", "e", "s", "t">>, <<"2", "9", ".", "0", ".", "0">>)>>)]

\* both manifests, no framework among the requirements
RepoBothPlain ==
    [root |-> "root",
     dirs |-> [root |-> {File(s_package_json, <<l_json>>),
                         File(s_requirements_txt, <<<<"r", "e", "q", "u", "e", "s", "t", "s", "=", "=", "2", ".", "3", "1", ".", "0">>, <<"n", "u", "m", "p", "y">>>>)}],
     listable |-> [root |-> TRUE],
     pkg |-> Pkg(<<Ver(s_next, <<"1", "4", ".", "1", ".", "0">>)>>, <<Ver(<<"j", "e", "s", "t">>, <<"2", "9", ".", "0", ".", "0">>)>>)]

\* a JavaScript checkout before its first install: no .env, no lockfile
RepoJsFresh ==
    [root |-> "root",
     dirs |-> [root |-> {File(s_package_json, <<l_json>>), File(s_env_example, <<l_comment>>)}],
     listable |-> [root |-> TRUE],
     pkg |-> Pkg(<<Ver(s_react, <<"^", "1", "6", ".", "2", ".", "0">>)>>, <<>>)]

\* a JavaScript checkout that is ready to run
RepoJsReady ==
    [root |-> "root",
     dirs |-> [root |-> {File(s_package_json, <<l_json>>), File(s_env_example, <<l_comment>>),
                         File(s_env, <<l_comment>>), File(s_package_lock, <<l_json>>)}],
     listable |-> [root |-> TRUE],
     pkg |-> Pkg(<<Ver(s_react, <<"^", "1", "8", ".", "0", ".", "0">>)>>, <<>>)]

\* requirements with fastapi on an earlier line than Django
RepoPyLast ==
    [root |-> "root",
     dirs |-> [root |-> {File(s_requirements_txt,
                              <<<<"f", "a", "s", "t", "a", "p", "i", "=", "=", "0", ".", "1", "0", "9", ".", "0">>, <<"D", "j", "a", "n", "g", "o", "=", "=", "4", ".", "2">>, <<"r", "e", "q", "u", "e", "s", "t", "s">>>>)}],
     listable |-> [root |-> TRUE],
     pkg |-> NoPkg]

\* requirements with a package whose name holds both framework names
RepoPyBridge ==
    [root |-> "root",
     dirs |-> [root |-> {File(s_requirements_txt, <<<<"d", "j", "a", "n", "g", "o", "-", "f", "a", "s", "t", "a", "p", "i", "=", "=", "0", ".", "3">>, <<"p", "y", "t", "e", "s", "t">>>>)}],
     listable |-> [root |-> TRUE],
     pkg |-> NoPkg]

\* a package.json that does not parse
RepoBadJson ==
    [root |-> "root",
     dirs |-> [root |-> {File(s_package_json, <<<<"{">>>>),
                         File(s_env_example, <<>>), File(s_env, <<>>)}],
     listable |-> [root |-> TRUE],
     pkg |-> NoPkg]

\* a requirements.txt that cannot be read, next to a package.json
RepoLockedReqs ==
    [root |-> "root",
     dirs |-> [root |-> {File(s_package_json, <<l_json>>),
                         Locked(s_requirements_txt, <<<<"D", "j", "a", "n", "g", "o", "=", "=", "4", ".", "2">>>>)}],
     listable |-> [root |-> TRUE],
     pkg |-> Pkg(<<Ver(s_next, <<"1", "4", ".", "1", ".", "0">>)>>, <<>>)]

\* a package.json whose second version is a number, next to a
\* requirements.txt
RepoBadVersion ==
    [root |-> "root",
     dirs |-> [root |-> {File(s_package_json, <<l_json>>),
                         File(s_requirements_txt, <<<<"r", "e", "q", "u", "e", "s", "t", "s", "=", "=", "2", ".", "3", "1", ".", "0">>>>)}],
     listable |-> [root |-> TRUE],
     pkg |-> Pkg(<<Ver(s_react, <<"^", "1", "8", ".", "2", ".", "0">>), [name |-> <<"a", "x", "i", "o", "s">>, ver |-> <<>>, isstr |-> FALSE],
                   Ver(<<"l", "o", "d", "a", "s", "h">>, <<"4", ".", "1", "7", ".", "2", "1">>)>>, <<>>)]

\* a root os.listdir cannot read
RepoRootDenied ==
    [root |-> "root",
     dirs |-> [root |-> {File(<<"a", ".", "p", "y">>, <<l_aws>>)}],
     listable |-> [root |-> FALSE],
     pkg |-> NoPkg]

\* number of generated requirements lines of the large repository: with the
\* fastapi line, more than DEP_LIMIT dependencies
ManyDeps == 51

\* what the service's clones produce
ServiceRepos == {RepoJs, RepoPy(ManyDeps), RepoLoop}
\* what the pipeline is run on directly
PipelineRepos ==
    {RepoJs, RepoPy(1), RepoPy(DEP_LIMIT - 1), RepoPy(ManyDeps), RepoLoop, RepoOutside,
     RepoHidden, RepoDenied, RepoMixed, RepoSecrets,
     RepoBoth, RepoBothPlain, RepoJsFresh, RepoJsReady,
     RepoPyLast, RepoPyBridge,
     RepoBadJson, RepoLockedReqs, RepoBadVersion, RepoRootDenied}

\* ------------------------------------------------------------- the service
\* analyze_repo and chat_agent are coroutines without an await: the event
\* loop runs each of them to its end before it starts another, so at most
\* one /analyze handler is under way.  The handler is modelled statement by
\* statement; the deferred cleanup runs in a worker thread once the response
\* is sent, concurrently with later requests.  A /chat lookup is allowed at
\* any point of an analysis, which is more than the event loop allows.

VARIABLES
    count,       \* /analyze requests started so far
    pc,          \* where the /analyze handler is
    url,         \* request.repo_url
    path,        \* repo_path: None, or [name, fs]
    structure,   \* None or the tree
    envdeps,     \* None or [env, deps]
    security,    \* None or the findings
    startup,     \* None or the startup issues
    tasks,       \* None or the task list
    result,      \* None or the AnalysisResult
    background,  \* the tasks added to the request's BackgroundTasks
    response,    \* None or [status, body] of the request
    log,         \* what the handler has done for the request, in order
    deferred,    \* the background tasks of requests already answered
    store,       \* REPO_CONTEXT_STORE
    lastGood,    \* repo_url -> None or the profile the last successful analysis returned
    tmpdirs,     \* names of the temporary directories on disk
    cleaned,     \* names cleanup_temp has been called on
    chat,        \* the /chat handler: None, or [repo_id, context]
    previous     \* the results of earlier pipeline runs on the same directory

locals == <<structure, envdeps, security, startup, tasks, result>>
vars ==
    <<count, pc, url, path, structure, envdeps, security, startup, tasks, result,
      background, response, log, deferred, store, lastGood, tmpdirs, cleaned, chat, previous>>

Urls == {"repoA", "repoB"}

\* tempfile.mkdtemp(): a fresh name for every request
TmpName(n) == <<"t", "m", "p", DigitChar(n)>>

\* dict.get(key): None when the key is absent
StoreGet(st, key) == IF key \in DOMAIN st THEN Some(st[key]) ELSE None
\* for comparison: a write that reaches every key, and a write that replaces
\* the whole dict
StorePutAll(st, key, value) == [k \in DOMAIN st \cup {key} |-> value]
StoreReplace(st, key, value) == (key :> value)
\* dict[key] = value
StorePut(st, key, value) == (key :> value) @@ st

\* shutil.rmtree(path, ignore_errors=True); removed is FALSE when the removal
\* fails, which is ignored
cleanup_temp(dirs, name, removed) == IF removed THEN dirs \ {name} ELSE dirs

Event(e) == [ev |-> e]
Logged(e) == \E i \in 1..Len(log) : log[i].ev = e
Position(e) == CHOOSE i \in 1..Len(log) : log[i].ev = e

\* no handler is between its first and its last statement
LoopFree == pc \in {"idle", "rejected", "done", "failed"}

Init ==
    /\ count = 0
    /\ pc = "idle"
    /\ url = "repoA"
    /\ path = None
    /\ structure = None
    /\ envdeps = None
    /\ security = None
    /\ startup = None
    /\ tasks = None
    /\ result = None
    /\ background = <<>>
    /\ response = None
    /\ log = <<>>
    /\ deferred = {}
    /\ store = [u \in {} |-> None]
    /\ lastGood = [u \in Urls |-> None]
    /\ tmpdirs = {}
    /\ cleaned = {}
    /\ chat = None
    /\ previous = <<>>

\* a new request: the handler's variables are fresh
Fresh ==
    /\ structure' = None
    /\ envdeps' = None
    /\ security' = None
    /\ startup' = None
    /\ tasks' = None
    /\ result' = None
    /\ background' = <<>>

\* clone_repository succeeds: repo_path is a fresh directory with the checkout
Clone ==
    /\ LoopFree /\ chat = None
    /\ count < MaxAnalyses
    /\ count' = count + 1
    /\ \E u \in Urls, fs \in ServiceRepos :
        /\ url' = u
        /\ path' = Some([name |-> TmpName(count'), fs |-> fs])
    /\ tmpdirs' = tmpdirs \cup {TmpName(count')}
    /\ Fresh
    /\ response' = None
    /\ log' = <<Event("clone")>>
    /\ pc' = "structure"
    /\ UNCHANGED <<deferred, store, lastGood, cleaned, chat, previous>>

\* for comparison: a failed clone that leaves a stub in the store
CloneFailsStoresStub ==
    /\ LoopFree /\ chat = None
    /\ count < MaxAnalyses
    /\ count' = count + 1
    /\ \E u \in Urls : url' = u
    /\ path' = None
    /\ Fresh
    /\ log' = <<Event("clone_failed"), Event("respond")>>
    /\ response' = Some([status |-> 400, body |-> None])
    /\ store' = StorePut(store, url', [repo_id |-> url'])
    /\ pc' = "rejected"
    /\ UNCHANGED <<deferred, lastGood, tmpdirs, cleaned, chat, previous>>

\* clone_repository raises: the temporary directory is removed again and the
\* handler answers 400
CloneFails ==
    /\ LoopFree /\ chat = None
    /\ count < MaxAnalyses
    /\ count' = count + 1
    /\ \E u \in Urls : url' = u
    /\ path' = None
    /\ Fresh
    /\ log' = <<Event("clone_failed"), Event("respond")>>
    /\ response' = Some([status |-> 400, body |-> None])
    /\ pc' = "rejected"
    /\ UNCHANGED <<deferred, store, lastGood, tmpdirs, cleaned, chat, previous>>

\* structure = get_file_structure(repo_path)
Structure ==
    /\ pc = "structure" /\ chat = None
    /\ \E order \in Enumerations(path[1].fs) :
        LET res == get_file_structure(path[1].fs, path[1].fs.root, path[1].name, order, 0)
        IN  /\ structure' = IF res.ok THEN Some(res.node) ELSE None
            /\ pc' = IF res.ok THEN "environment" ELSE "except"
            /\ log' = Append(log, Event(IF res.ok THEN "structure" ELSE "raised"))
    /\ UNCHANGED <<count, url, path, envdeps, security, startup, tasks, result, background,
                   response, deferred, store, lastGood, tmpdirs, cleaned, chat, previous>>

\* env, deps = analyze_environment_and_deps(repo_path)
Environment ==
    /\ pc = "environment" /\ chat = None
    /\ LET res == analyze_environment_and_deps(path[1].fs)
       IN  /\ envdeps' = Some(res)
           /\ log' = Append(log, [ev |-> "environment", env |-> res.env])
    /\ pc' = "security"
    /\ UNCHANGED <<count, url, path, structure, security, startup, tasks, result,
                   background, response, deferred, store, lastGood, tmpdirs, cleaned, chat,
                   previous>>

\* security = analyze_security(repo_path)
Security ==
    /\ pc = "security" /\ chat = None
    /\ \E order \in Enumerations(path[1].fs) :
        security' = Some(analyze_security(path[1].fs, order))
    /\ log' = Append(log, Event("security"))
    /\ pc' = "startup"
    /\ UNCHANGED <<count, url, path, structure, envdeps, startup, tasks, result, background,
                   response, deferred, store, lastGood, tmpdirs, cleaned, chat, previous>>

\* for comparison: the defaults in place of the detected environment
DefaultEnvArgument == DefaultEnv

\* the env the handler passes to analyze_startup and generate_tasks
EnvArgument == envdeps[1].env

\* startup = analyze_startup(repo_path, env)
Startup ==
    /\ pc = "startup" /\ chat = None
    /\ LET res == analyze_startup(path[1].fs, EnvArgument)
       IN  /\ startup' = IF res.ok THEN Some(res.issues) ELSE None
           /\ pc' = IF res.ok THEN "tasks" ELSE "except"
           /\ log' = Append(log, IF res.ok THEN [ev |-> "startup", env |-> EnvArgument]
                                 ELSE Event("raised"))
    /\ UNCHANGED <<count, url, path, structure, envdeps, security, tasks, result,
                   background, response, deferred, store, lastGood, tmpdirs, cleaned, chat,
                   previous>>

\* for comparison: a handler that publishes the profile field by field
TasksPublishing ==
    /\ pc = "tasks" /\ chat = None
    /\ tasks' = Some(generate_tasks(envdeps[1].env))
    /\ store' = StorePut(store, url, [repo_id |-> url, environment |-> envdeps[1].env,
                                      tasks |-> tasks'[1]])
    /\ log' = Append(log, [ev |-> "tasks", env |-> envdeps[1].env])
    /\ pc' = "assemble"
    /\ UNCHANGED <<count, url, path, structure, envdeps, security, startup, result,
                   background, response, deferred, lastGood, tmpdirs, cleaned, chat,
                   previous>>

\* tasks = generate_tasks(repo_path, env)
Tasks ==
    /\ pc = "tasks" /\ chat = None
    /\ tasks' = Some(generate_tasks(EnvArgument))
    /\ log' = Append(log, [ev |-> "tasks", env |-> EnvArgument])
    /\ pc' = "assemble"
    /\ UNCHANGED <<count, url, path, structure, envdeps, security, startup, result,
                   background, response, deferred, store, lastGood, tmpdirs, cleaned, chat,
                   previous>>

\* result = AnalysisResult(...)
Assemble ==
    /\ pc = "assemble" /\ chat = None
    /\ result' = Some(AnalysisResult(url, envdeps[1].env, envdeps[1].deps, structure[1],
                                     tasks[1], security[1], startup[1]))
    /\ log' = Append(log, Event("assemble"))
    /\ pc' = "store"
    /\ UNCHANGED <<count, url, path, structure, envdeps, security, startup, tasks,
                   background, response, deferred, store, lastGood, tmpdirs, cleaned, chat,
                   previous>>

\* REPO_CONTEXT_STORE[request.repo_url] = result.dict()
Store ==
    /\ pc = "store" /\ chat = None
    /\ store' = StorePut(store, url, ResultDict(result[1]))
    /\ log' = Append(log, Event("store"))
    /\ pc' = "schedule"
    /\ UNCHANGED <<count, url, path, structure, envdeps, security, startup, tasks, result,
                   background, response, deferred, lastGood, tmpdirs, cleaned, chat,
                   previous>>

\* for comparison: a handler that returns without scheduling the cleanup
ScheduleNothing ==
    /\ pc = "schedule" /\ chat = None
    /\ log' = Append(log, Event("schedule"))
    /\ pc' = "return"
    /\ UNCHANGED <<count, url, path, structure, envdeps, security, startup, tasks, result,
                   background, response, deferred, store, lastGood, tmpdirs, cleaned, chat,
                   previous>>

\* background_tasks.add_task(cleanup_temp, repo_path)
Schedule ==
    /\ pc = "schedule" /\ chat = None
    /\ background' = Append(background, path[1].name)
    /\ log' = Append(log, Event("schedule"))
    /\ pc' = "return"
    /\ UNCHANGED <<count, url, path, structure, envdeps, security, startup, tasks, result,
                   response, deferred, store, lastGood, tmpdirs, cleaned, chat, previous>>

\* return result: the response is sent, the background tasks become due
Return ==
    /\ pc = "return" /\ chat = None
    /\ response' = Some([status |-> 200, body |-> result])
    /\ lastGood' = [lastGood EXCEPT ![url] = Some(ResultDict(result[1]))]
    /\ deferred' = deferred \cup {background[i] : i \in 1..Len(background)}
    /\ background' = <<>>
    /\ log' = Append(log, Event("respond"))
    /\ pc' = "done"
    /\ UNCHANGED <<count, url, path, structure, envdeps, security, startup, tasks, result,
                   store, tmpdirs, cleaned, chat, previous>>

\* a deferred cleanup_temp(repo_path) runs
Background ==
    /\ \E name \in deferred :
        /\ deferred' = deferred \ {name}
        /\ \E removed \in BOOLEAN : tmpdirs' = cleanup_temp(tmpdirs, name, removed)
        /\ cleaned' = cleaned \cup {name}
    /\ UNCHANGED <<count, pc, url, path, structure, envdeps, security, startup, tasks,
                   result, background, response, log, store, lastGood, chat, previous>>

\* a component or the assembly raises an exception of its own accord (an I/O
\* error, MemoryError): the try block of the handler is left
ComponentStages == {"structure", "environment", "security", "startup", "tasks", "assemble"}
Fault ==
    /\ pc \in ComponentStages /\ chat = None
    /\ log' = Append(log, Event("raised"))
    /\ pc' = "except"
    /\ UNCHANGED <<count, url, path, structure, envdeps, security, startup, tasks, result,
                   background, response, deferred, store, lastGood, tmpdirs, cleaned, chat,
                   previous>>

\* for comparison: an except block that stores what has been computed so far
ExceptStoresPartial ==
    /\ pc = "except" /\ chat = None
    /\ \E removed \in BOOLEAN : tmpdirs' = cleanup_temp(tmpdirs, path[1].name, removed)
    /\ cleaned' = cleaned \cup {path[1].name}
    /\ store' = StorePut(store, url, [repo_id |-> url, structure |-> structure])
    /\ log' = Append(log, Event("cleanup"))
    /\ pc' = "raise"
    /\ UNCHANGED <<count, url, path, structure, envdeps, security, startup, tasks, result,
                   background, response, deferred, lastGood, chat, previous>>

\* except Exception as e: cleanup_temp(repo_path)
Except ==
    /\ pc = "except" /\ chat = None
    /\ \E removed \in BOOLEAN : tmpdirs' = cleanup_temp(tmpdirs, path[1].name, removed)
    /\ cleaned' = cleaned \cup {path[1].name}
    /\ log' = Append(log, Event("cleanup"))
    /\ pc' = "raise"
    /\ UNCHANGED <<count, url, path, structure, envdeps, security, startup, tasks, result,
                   background, response, deferred, store, lastGood, chat, previous>>

\* raise HTTPException(status_code=500, ...)
Raise ==
    /\ pc = "raise" /\ chat = None
    /\ response' = Some([status |-> 500, body |-> None])
    /\ log' = Append(log, Event("respond"))
    /\ pc' = "failed"
    /\ UNCHANGED <<count, url, path, structure, envdeps, security, startup, tasks, result,
                   background, deferred, store, lastGood, tmpdirs, cleaned, chat, previous>>

\* chat_agent: context = REPO_CONTEXT_STORE.get(request.repo_id)
ChatLookup ==
    /\ chat = None
    /\ \E u \in Urls : chat' = Some([repo_id |-> u, context |-> StoreGet(store, u)])
    /\ UNCHANGED <<count, pc, url, path, structure, envdeps, security, startup, tasks,
                   result, background, response, log, deferred, store, lastGood, tmpdirs,
                   cleaned, previous>>

\* chat_agent returns its answer
ChatReturn ==
    /\ chat # None
    /\ chat' = None
    /\ UNCHANGED <<count, pc, url, path, structure, envdeps, security, startup, tasks,
                   result, background, response, log, deferred, store, lastGood, tmpdirs,
                   cleaned, previous>>

Handler ==
    \/ Clone \/ CloneFails \/ Structure \/ Environment \/ Security \/ Startup \/ Tasks
    \/ Assemble \/ Store \/ Schedule \/ Return \/ Fault \/ Except \/ Raise

Next == Handler \/ Background \/ ChatLookup \/ ChatReturn

Spec == Init /\ [][Next]_vars

\* a step of the handler once it has started: one of its statements, or an
\* exception leaving one
Progress ==
    \/ Fault \/ Except \/ Raise \/ Store \/ Schedule \/ Return
    \/ Structure \/ Environment \/ Security \/ Startup \/ Tasks \/ Assemble

\* The event loop resumes the handler whenever no other coroutine runs, the
\* worker threads run every deferred task, every /chat handler returns.
FairSpec == Spec /\ SF_vars(Progress) /\ WF_vars(Background) /\ WF_vars(ChatReturn)

\* ------------------------------------------------------------ the pipeline
\* The five components and the assembly, run MaxRuns times over one
\* unchanged directory: lines 191-204 of the handler without the clone, the
\* store and the cleanup.

PipelineInit ==
    /\ count = 0
    /\ pc = "structure"
    /\ url = "repoA"
    /\ \E fs \in PipelineRepos : path = Some([name |-> TmpName(0), fs |-> fs])
    /\ structure = None
    /\ envdeps = None
    /\ security = None
    /\ startup = None
    /\ tasks = None
    /\ result = None
    /\ background = <<>>
    /\ response = None
    /\ log = <<>>
    /\ deferred = {}
    /\ store = [u \in {} |-> None]
    /\ lastGood = [u \in Urls |-> None]
    /\ tmpdirs = {TmpName(0)}
    /\ cleaned = {}
    /\ chat = None
    /\ previous = <<>>

\* the pipeline is run again over the same directory
Rerun ==
    /\ pc = "store"
    /\ Len(previous) < MaxRuns - 1
    /\ previous' = Append(previous, result[1])
    /\ Fresh
    /\ log' = <<>>
    /\ pc' = "structure"
    /\ UNCHANGED <<count, url, path, response, deferred, store, lastGood, tmpdirs, cleaned,
                   chat>>

PipelineNext ==
    \/ Structure \/ Environment \/ Security \/ Startup \/ Tasks \/ Assemble \/ Rerun

PipelineSpec == PipelineInit /\ [][PipelineNext]_vars
\* -------------------------------------------------------------- properties

\* the handler is past the store write and has not returned yet
Storing == pc \in {"schedule", "return"}

\* C1: the store entry of every identifier is absent or the profile of the
\* most recent analysis of that identifier that succeeded (between the store
\* write and the return of the handler: the profile of the analysis that is
\* succeeding); an analysis that failed at the clone or in a component has
\* written nothing.
C1_StoreHoldsLastGoodProfile ==
    /\ \A u \in Urls :
        StoreGet(store, u) =
            IF Storing /\ u = url THEN Some(ResultDict(result[1])) ELSE lastGood[u]
    /\ (pc \in {"rejected", "except", "raise", "failed"} => ~Logged("store"))

\* a second analysis of an identifier failed and the profile of the first is
\* still stored
C1_Witness ==
    /\ pc = "failed"
    /\ count = 2
    /\ StoreGet(store, url) # None
    /\ StoreGet(store, url) = lastGood[url]

\* the order of the cleanup among the steps of one request
CleanupOrder ==
    /\ (Logged("schedule") => Logged("store") /\ Position("store") < Position("schedule"))
    /\ (pc = "failed" =>
            /\ Logged("cleanup") /\ Position("cleanup") < Position("respond")
            /\ path[1].name \in cleaned)
    /\ (pc = "raise" => path[1].name \in cleaned)

\* C2: the clone of every analysis is eventually cleaned up; on success the
\* cleanup is scheduled after the profile is stored, on failure it has run
\* before the failure is reported.
C2_CleanupAlwaysPerformed ==
    /\ []CleanupOrder
    /\ \A n \in 1..MaxAnalyses :
        (path # None /\ path[1].name = TmpName(n)) ~> (TmpName(n) \in cleaned)

\* both kinds of cleanup have run: the deferred one of a successful analysis
\* and the one of a failed analysis
C2_Witness ==
    /\ pc = "failed"
    /\ count = 2
    /\ cleaned = {TmpName(1), TmpName(2)}
    /\ lastGood[url] # None

ComponentEvents == {"structure", "environment", "security", "startup", "tasks"}

\* what a rejected request has done
Rejected ==
    pc = "rejected" =>
        /\ \A i \in 1..Len(log) : log[i].ev \notin ComponentEvents \cup {"assemble", "store"}
        /\ structure = None /\ envdeps = None /\ security = None
        /\ startup = None /\ tasks = None /\ result = None
        /\ response = Some([status |-> 400, body |-> None])

\* C3: when the clone fails no component runs, nothing is written to the
\* store and the request ends with an error response.
C3_CloneFailureStopsEverything ==
    /\ []Rejected
    /\ [][pc' = "rejected" => store' = store]_vars

\* a clone failed after an earlier analysis had stored a profile
C3_Witness == pc = "rejected" /\ count = 2 /\ DOMAIN store # {}

ProfileFields ==
    {"repo_id", "environment", "dependencies", "structure", "tasks", "security",
     "startup_issues"}

\* what a /chat lookup has read: nothing, or a whole profile of its
\* identifier, which is the one of the last analysis that returned or the one
\* the running analysis has just stored
ReaderSeesWholeProfile ==
    chat # None =>
        LET id == chat[1].repo_id
            context == chat[1].context
        IN  \/ context = None
            \/ /\ DOMAIN context[1] = ProfileFields
               /\ context[1].repo_id = id
               /\ \/ context = lastGood[id]
                  \/ Storing /\ url = id /\ context = Some(ResultDict(result[1]))

\* C4: a /chat lookup at any point of an analysis of the same identifier
\* reads the previous whole entry (or none) or the new whole profile; the
\* store changes only by one write of the assembled profile.
C4_ReaderNeverSeesPartialProfile ==
    /\ []ReaderSeesWholeProfile
    /\ [][store' # store =>
            /\ result # None
            /\ \A u \in DOMAIN store' :
                store'[u] = ResultDict(result[1]) \/ StoreGet(store, u) = Some(store'[u])]_vars

\* a lookup in the middle of the second analysis of an identifier has read
\* the profile of the first
C4_Witness ==
    /\ chat # None
    /\ pc \in ComponentStages
    /\ chat[1].repo_id = url
    /\ chat[1].context # None

\* C5: a step changes the store entry of no identifier but the one under
\* analysis, and the store write leaves the profile of the analysis that
\* writes, whatever was stored for the identifier before.
C5_IsolationAndLastWriteWins ==
    [][/\ \A u \in Urls :
            StoreGet(store', u) # StoreGet(store, u) => u = url /\ pc = "store"
       /\ (pc = "store" /\ pc' = "schedule" =>
            StoreGet(store', url) = Some(ResultDict(result[1])))]_vars

\* the second successful analysis of an identifier has overwritten the
\* different profile of the first
C5_Witness ==
    /\ pc = "schedule"
    /\ count = 2
    /\ lastGood[url] # None
    /\ StoreGet(store, url) # lastGood[url]

ComponentOrder == <<"structure", "environment", "security", "startup", "tasks">>

\* C6: the components run in the order structure, environment, security,
\* startup, tasks; the store is written after all five; startup and tasks
\* are given the environment the detector returned in the same run.
C6_FixedOrderAndSameEnvironment ==
    LET done == SelectSeq(log, LAMBDA e : e.ev \in ComponentEvents)
    IN  /\ Len(done) <= Len(ComponentOrder)
        /\ \A i \in 1..Len(done) : done[i].ev = ComponentOrder[i]
        /\ Logged("store") =>
            /\ Len(done) = Len(ComponentOrder)
            /\ \A e \in ComponentEvents : Position(e) < Position("store")
        /\ \A i \in 1..Len(log) :
            log[i].ev \in {"startup", "tasks"} =>
                /\ Logged("environment")
                /\ log[i].env = log[Position("environment")].env
                /\ log[i].env = analyze_environment_and_deps(path[1].fs).env

\* a Python repository has been analysed up to the store write
C6_Witness ==
    /\ Logged("store")
    /\ envdeps[1].env.language = "Python"
    /\ envdeps[1].env.framework = "FastAPI"

\* what a /chat lookup returns
LookupAnswers ==
    chat # None =>
        /\ (lastGood[chat[1].repo_id] # None => chat[1].context # None)
        /\ (chat[1].repo_id \notin DOMAIN store => chat[1].context = None)
        /\ (chat[1].context = None => chat[1].repo_id \notin DOMAIN store)

\* C7: no step removes an entry of the store, so a lookup of an identifier
\* that has been analysed successfully returns a profile; a lookup of an
\* identifier without an entry returns None.
C7_EntriesNeverDeleted ==
    /\ [][DOMAIN store \subseteq DOMAIN store']_vars
    /\ []LookupAnswers

\* a lookup of an identifier never analysed has returned None while the
\* other identifier has a profile
C7_Witness ==
    /\ chat # None
    /\ chat[1].context = None
    /\ DOMAIN store # {}
    /\ pc = "done"

\* s[:k]
Prefix(s, k) == [i \in 1..(IF Len(s) < k THEN Len(s) ELSE k) |-> s[i]]

\* C8: the dependencies of every assembled, stored and returned profile are
\* the first min(50, n) of the n the detector returned, in order.
C8_DependenciesBoundedToFirst50 ==
    /\ result # None =>
        /\ result[1].dependencies = Prefix(envdeps[1].deps, 50)
        /\ Len(result[1].dependencies) <= 50
    /\ (Storing => store[url].dependencies = Prefix(envdeps[1].deps, 50))
    /\ \A u \in DOMAIN store : Len(store[u].dependencies) <= 50
    /\ (response # None /\ response[1].status = 200 =>
            response[1].body[1].dependencies = Prefix(envdeps[1].deps, 50))

\* a repository with more than 50 dependencies has been analysed: 50 are
\* stored and returned
C8_Witness ==
    /\ pc = "done"
    /\ Len(envdeps[1].deps) > 50
    /\ Len(store[url].dependencies) = 50
    /\ Len(response[1].body[1].dependencies) = 50

\* two runs agree on everything but the order of the findings
SameFindings(a, b) ==
    /\ Len(a) = Len(b)
    /\ \A x \in {a[i] : i \in 1..Len(a)} :
        Cardinality({i \in 1..Len(a) : a[i] = x}) = Cardinality({i \in 1..Len(b) : b[i] = x})
RerunEqualUpToFindingOrder ==
    (pc = "store" /\ previous # <<>>) =>
        /\ [result[1] EXCEPT !.security = <<>>] = [previous[1] EXCEPT !.security = <<>>]
        /\ SameFindings(result[1].security, previous[1].security)

\* C9: the profile of a second run of the pipeline over the same unchanged
\* directory equals the profile of the first, whatever the orders in which
\* the directories were enumerated in the two runs.
C9_RerunIdentical == (pc = "store" /\ previous # <<>>) => result[1] = previous[1]

\* the node of every symbolic link is a file node without children, in the
\* tree node of directory d and below
RECURSIVE LinksOpaque(_, _, _)
LinksOpaque(fs, d, node) ==
    \A i \in 1..Len(node.children[1]) :
        LET c == node.children[1][i]
            e == CHOOSE e \in fs.dirs[d] : e.name = c.name
        IN  IF e.link THEN c.type = "file" /\ c.children = None
            ELSE e.kind = "dir" => LinksOpaque(fs, e.dir, c)

\* C10: in the tree the walker returns every symbolic link is a file node
\* that was not descended into, and the walk of a directory with symbolic
\* links comes to its end with a tree.
C10_WalkerNeverFollowsLinks ==
    /\ structure # None => LinksOpaque(path[1].fs, path[1].fs.root, structure[1])
    /\ ~(pc = "except" /\ ~Logged("structure"))

\* the children of a folder node, and of every folder node below it, have
\* the folders first and ascending names within the folders and the files
RECURSIVE ChildrenSorted(_)
ChildrenSorted(node) ==
    node.type = "folder" =>
        LET ch == node.children[1]
        IN  /\ \A i, j \in 1..Len(ch) :
                i < j =>
                    /\ ch[j].type = "folder" => ch[i].type = "folder"
                    /\ ch[i].type = ch[j].type => StrLess(ch[i].name, ch[j].name)
            /\ \A i \in 1..Len(ch) : ChildrenSorted(ch[i])

\* C11: whatever the order in which the directories are enumerated, the
\* children of every folder node of the tree are the folders before the
\* files, each group in ascending case-sensitive order of the names.
C11_ChildrenFoldersFirstByName == structure # None => ChildrenSorted(structure[1])

\* the tree of a directory with folders and files of mixed case
C11_Witness ==
    /\ structure # None
    /\ path[1].fs = RepoMixed
    /\ [i \in 1..Len(structure[1].children[1]) |-> structure[1].children[1][i].name]
        = <<<<"L", "i", "b">>, <<"d", "o", "c", "s">>, <<"s", "r", "c">>, <<"M", "a", "k", "e", "f", "i", "l", "e">>, <<"a", ".", "p", "y">>, <<"a", ".", "p", "y", "c">>>>

\* every entry of directory d the walker does not skip has its node among
\* the children of the tree node of d; the node of a file is a file node with
\* the number of its lines, 0 for a file that cannot be read; the same below
\* every directory (symbolic links set aside)
RECURSIVE EveryEntryHasItsNode(_, _, _)
EveryEntryHasItsNode(fs, d, node) ==
    fs.listable[d] =>
        \A e \in {x \in fs.dirs[d] : ~WalkerSkips(x) /\ ~x.link} :
            LET found == {i \in 1..Len(node.children[1]) : node.children[1][i].name = e.name}
            IN  /\ Cardinality(found) = 1
                /\ LET c == node.children[1][CHOOSE i \in found : TRUE]
                   IN  IF e.kind = "dir"
                       THEN c.type = "folder" /\ EveryEntryHasItsNode(fs, e.dir, c)
                       ELSE /\ c.type = "file"
                            /\ c.children = None
                            /\ c.loc = Some(IF e.readable THEN Len(e.lines) ELSE 0)

\* the directory holds a file that cannot be read, in d or below
RECURSIVE HasUnreadableFile(_, _)
HasUnreadableFile(fs, d) ==
    \E e \in fs.dirs[d] :
        /\ ~e.link /\ ~WalkerSkips(e)
        /\ \/ e.kind = "file" /\ ~e.readable
           \/ e.kind = "dir" /\ fs.listable[e.dir] /\ HasUnreadableFile(fs, e.dir)

\* nothing but its unreadable files is in the way of the analysis of fs
OnlyUnreadableFiles(fs) ==
    /\ HasUnreadableFile(fs, fs.root)
    /\ fs.listable[fs.root]
    /\ \A d \in DOMAIN fs.dirs : \A e \in fs.dirs[d] : ~e.link

\* C12: a file that cannot be read is a file node with loc = 0 in the tree,
\* next to the nodes of all other entries, and neither the walker nor a
\* later component raises because of it: the run goes on to its profile.
C12_UnreadableFileCountsZero ==
    /\ structure # None => EveryEntryHasItsNode(path[1].fs, path[1].fs.root, structure[1])
    /\ OnlyUnreadableFiles(path[1].fs) =>
        /\ pc # "except"
        /\ (pc \in {"environment", "security", "startup", "tasks", "assemble", "store"}
                => structure # None)
        /\ (pc \in {"startup", "tasks", "assemble", "store"} => security # None)
        /\ (pc = "store" => result # None)

\* the profile of a directory with an unreadable file that holds a secret:
\* the file is in the tree with loc 0, its readable neighbour with loc 2
C12_Witness ==
    /\ pc = "store"
    /\ path[1].fs = RepoHidden
    /\ LET src == result[1].structure.children[1][1]
       IN  /\ src.name = <<"s", "r", "c">>
           /\ [i \in 1..3 |-> <<src.children[1][i].name, src.children[1][i].loc>>]
                = <<<<<<"B", ".", "p", "y">>, Some(2)>>, <<<<"a", ".", "p", "y">>, Some(0)>>, <<<<"k", ".", "p", "e", "m">>, Some(0)>>>>

\* the files os.walk reaches in d and below, each with its path relative to
\* the root: the entries that are no directories, in the directories that
\* can be listed and are no symbolic links
RECURSIVE WalkedFiles(_, _, _)
WalkedFiles(fs, d, prefix) ==
    IF ~fs.listable[d] THEN {}
    ELSE {[rel |-> RelPath(prefix, e.name), entry |-> e] :
            e \in {x \in fs.dirs[d] : ~(x.exists /\ x.kind = "dir")}}
         \cup UNION {WalkedFiles(fs, e.dir, RelPath(prefix, e.name)) :
                        e \in {x \in fs.dirs[d] : x.exists /\ x.kind = "dir" /\ ~x.link}}

\* the lines with an AWS access-key assignment
AwsLines == {l_aws, l_aws_tight}
AwsDescription == "Potential AWS Access Key"

\* the findings about line n of the file rel
FindingsAt(rel, n) == {i \in 1..Len(security[1]) :
                            security[1][i].file = rel /\ security[1][i].line = n}
FindingsIn(rel) == {i \in 1..Len(security[1]) : security[1][i].file = rel}

\* the name has an extension the scanner leaves out, or is hidden
LeftOut(name) ==
    \/ name[1] = "."
    \/ \E ext \in {<<".", "p", "n", "g">>, <<".", "j", "p", "g">>, <<".", "l", "o", "c", "k">>} :
        Len(name) >= Len(ext) /\ SubSeq(name, Len(name) - Len(ext) + 1, Len(name)) = ext

\* one finding, the AWS one, for every AWS line of the file f
OneAwsFindingPerLine(f) ==
    \A n \in 1..Len(f.entry.lines) :
        f.entry.lines[n] \in AwsLines =>
            /\ Cardinality(FindingsAt(f.rel, n)) = 1
            /\ \A i \in FindingsAt(f.rel, n) : security[1][i].description = AwsDescription

JsManifestFails(fs) ==
    /\ PathExists(fs, s_package_json)
    /\ \/ ~CanOpen(fs, s_package_json)
       \/ ~fs.pkg.parses
       \/ LET all_deps == DictMerge(fs.pkg.dependencies, fs.pkg.devDependencies)
          IN  \E i \in 1..Len(all_deps) : ~all_deps[i].isstr
\* requirements.txt is there and reading it raises
PyManifestFails(fs) == PathExists(fs, s_requirements_txt) /\ ~CanOpen(fs, s_requirements_txt)

\* fs without the manifests whose reading raises
WithoutFailedManifests(fs) ==
    LET failed == (IF JsManifestFails(fs) THEN {s_package_json} ELSE {}) \cup
                  (IF PyManifestFails(fs) THEN {s_requirements_txt} ELSE {})
    IN  [fs EXCEPT !.dirs[fs.root] = {e \in @ : e.name \notin failed}]

\* C14: a manifest whose reading raises contributes nothing, neither
\* dependency records nor environment fields: the detector returns what it
\* returns for the directory without that manifest.
C14_FailedManifestContributesNothing ==
    envdeps # None =>
        envdeps[1] = analyze_environment_and_deps(WithoutFailedManifests(path[1].fs))

\* the detector returns, and the manifest that can be read contributes as
\* it does alone, whatever happens to the other one
C14_OtherManifestStillRead ==
    envdeps # None =>
        LET fs == path[1].fs
            alone(name) == [fs EXCEPT !.dirs[fs.root] = {e \in @ : e.name # name}]
        IN  /\ JsManifestFails(fs) /\ CanOpen(fs, s_requirements_txt) =>
                LET py == analyze_environment_and_deps(alone(s_package_json))
                IN  /\ envdeps[1].env.language = py.env.language
                    /\ envdeps[1].env.buildSystem = py.env.buildSystem
                    /\ SubSeq(envdeps[1].deps, Len(envdeps[1].deps) - Len(py.deps) + 1,
                              Len(envdeps[1].deps)) = py.deps
            /\ PyManifestFails(fs) /\ ~JsManifestFails(fs) =>
                envdeps[1].deps = analyze_environment_and_deps(alone(s_requirements_txt)).deps

\* fs with the root entry of that name taken away
WithoutEntry(fs, name) == [fs EXCEPT !.dirs[fs.root] = {e \in @ : e.name # name}]

\* both manifests are there and are read to their end
BothManifestsRead(fs) ==
    /\ CanOpen(fs, s_package_json) /\ ~JsManifestFails(fs)
    /\ CanOpen(fs, s_requirements_txt)

\* with both manifests the dependencies are the JavaScript records, then
\* the Python records, and language and buildSystem are the Python ones
BothContributePythonLanguage ==
    envdeps # None /\ BothManifestsRead(path[1].fs) =>
        LET js == analyze_environment_and_deps(WithoutEntry(path[1].fs, s_requirements_txt))
            py == analyze_environment_and_deps(WithoutEntry(path[1].fs, s_package_json))
        IN  /\ envdeps[1].deps = js.deps \o py.deps
            /\ envdeps[1].env.language = "Python" /\ py.env.language = "Python"
            /\ envdeps[1].env.buildSystem = "pip" /\ py.env.buildSystem = "pip"
            /\ envdeps[1].env.framework =
                IF py.env.framework # "Unknown" THEN py.env.framework ELSE js.env.framework

\* C15: with both manifests in the root the dependencies are the
\* JavaScript records followed by the Python records, and language,
\* framework and buildSystem are what the Python manifest determines.
C15_PythonManifestDeterminesEnvironment ==
    envdeps # None /\ BothManifestsRead(path[1].fs) =>
        LET js == analyze_environment_and_deps(WithoutEntry(path[1].fs, s_requirements_txt))
            py == analyze_environment_and_deps(WithoutEntry(path[1].fs, s_package_json))
        IN  /\ envdeps[1].deps = js.deps \o py.deps
            /\ envdeps[1].env.language = py.env.language
            /\ envdeps[1].env.framework = py.env.framework
            /\ envdeps[1].env.buildSystem = py.env.buildSystem

\* the root has an entry of that name
InRoot(fs, name) == \E e \in fs.dirs[fs.root] : e.name = name

\* the kinds of the issues, in order
Kinds(issues) == [i \in 1..Len(issues) |-> issues[i].type]

\* what the two rules give for the directory and the language
ExpectedKinds(fs, language) ==
    (IF InRoot(fs, <<".", "e", "n", "v", ".", "e", "x", "a", "m", "p", "l", "e">>) /\ ~InRoot(fs, <<".", "e", "n", "v">>) THEN <<"error">> ELSE <<>>) \o
    (IF language = "JavaScript/TypeScript" /\ ~InRoot(fs, <<"p", "a", "c", "k", "a", "g", "e", "-", "l", "o", "c", "k", ".", "j", "s", "o", "n">>)
     THEN <<"warning">> ELSE <<>>)

\* fs with an .env file added to its root
WithEnvFile(fs) == [fs EXCEPT !.dirs[fs.root] = @ \cup {File(<<".", "e", "n", "v">>, <<>>)}]

\* C16: the startup issues are one error exactly when .env.example is there
\* and .env is not, then one warning exactly when the language is
\* JavaScript/TypeScript and package-lock.json is not there, and nothing
\* else; with an .env file added the error is gone and the rest stays.
C16_StartupIssuesFollowTwoRules ==
    startup # None =>
        LET fs == path[1].fs
            language == envdeps[1].env.language
            after == analyze_startup(WithEnvFile(fs), envdeps[1].env).issues
        IN  /\ Kinds(startup[1]) = ExpectedKinds(fs, language)
            /\ \A i \in 1..Len(after) : after[i].type # "error"
            /\ after = SelectSeq(startup[1], LAMBDA x : x.type # "error")

\* a JavaScript checkout without .env and without lockfile: the error, then
\* the warning
C16_Witness ==
    /\ startup # None
    /\ path[1].fs = RepoJsFresh
    /\ Kinds(startup[1]) = <<"error", "warning">>
    /\ startup[1][1].title = "Missing Config"
    /\ startup[1][2].title = "No Lockfile"

\* C17: the task list starts with the placeholder clone instruction; after
\* it come npm install and npm run dev for JavaScript/TypeScript, the three
\* virtual-environment commands for Python, and nothing for any other
\* language.
C17_TasksFollowLanguage ==
    tasks # None =>
        LET language == envdeps[1].env.language
        IN  /\ Len(tasks[1]) >= 1
            /\ tasks[1][1] = "git clone <repo>"
            /\ Tail(tasks[1]) =
                CASE language = "JavaScript/TypeScript" -> <<"npm install", "npm run dev">>
                  [] language = "Python" ->
                        <<"python -m venv venv", "source venv/bin/activate",
                          "pip install -r requirements.txt">>
                  [] OTHER -> <<>>

\* the tasks of a directory without a manifest: the placeholder alone
C17_Witness ==
    /\ tasks # None
    /\ envdeps[1].env.language = "Unknown"
    /\ tasks[1] = <<"git clone <repo>">>

\* package.json is read to its end
JsManifestRead(fs) == CanOpen(fs, s_package_json) /\ ~JsManifestFails(fs)

\* the records of the JavaScript manifest: the dependency list without the
\* records of the lines of requirements.txt at its end
JsRecords ==
    LET fs == path[1].fs
        py == IF CanOpen(fs, s_requirements_txt)
              THEN Len(RootEntry(fs, s_requirements_txt)[1].lines) ELSE 0
    IN  SubSeq(envdeps[1].deps, 1, Len(envdeps[1].deps) - py)

\* the entries package.json declares: dependencies, then devDependencies
Declared(fs) == fs.pkg.dependencies \o fs.pkg.devDependencies

\* one record for every declared name, with the version declared last for
\* the name, kind "prod"
OneRecordPerDeclaredName ==
    envdeps # None /\ JsManifestRead(path[1].fs) =>
        LET declared == Declared(path[1].fs)
            last(name) == CHOOSE i \in 1..Len(declared) :
                            /\ declared[i].name = name
                            /\ \A j \in 1..Len(declared) : declared[j].name = name => j <= i
        IN  /\ Len(JsRecords) = Cardinality({declared[i].name : i \in 1..Len(declared)})
            /\ \A i \in 1..Len(declared) :
                \E k \in 1..Len(JsRecords) : JsRecords[k].name = declared[i].name
            /\ \A k \in 1..Len(JsRecords) :
                /\ JsRecords[k].type = "prod"
                /\ \E i \in 1..Len(declared) : JsRecords[k].name = declared[i].name
                /\ JsRecords[k].version = declared[last(JsRecords[k].name)].ver

\* C18: every entry package.json declares under dependencies and under
\* devDependencies has a record of its own, so there are as many JavaScript
\* records as entries in the two sections together; every record has kind
\* "prod" and the version of its entry as declared.
C18_OneRecordPerDeclaredEntry ==
    envdeps # None /\ JsManifestRead(path[1].fs) =>
        LET declared == Declared(path[1].fs)
        IN  /\ Len(JsRecords) = Len(path[1].fs.pkg.dependencies)
                                + Len(path[1].fs.pkg.devDependencies)
            /\ \A i \in 1..Len(declared) :
                \E k \in 1..Len(JsRecords) :
                    /\ JsRecords[k].name = declared[i].name
                    /\ JsRecords[k].version = declared[i].ver
                    /\ JsRecords[k].type = "prod"

\* the name of a requirements line, in lower case: the text before the
\* first == of the line without the white space around it
RequirementName(line) ==
    LET text == Strip(line)
        at == {i \in 1..(Len(text) - 1) : text[i] = "=" /\ text[i + 1] = "="}
        name == IF at = {} THEN text
                ELSE SubSeq(text, 1, (CHOOSE i \in at : \A j \in at : i <= j) - 1)
    IN  Lower(name)

\* the frameworks whose name is in the name of the line
Names(line) ==
    (IF Contains(RequirementName(line), <<"d", "j", "a", "n", "g", "o">>) THEN {"Django"} ELSE {}) \cup
    (IF Contains(RequirementName(line), <<"f", "a", "s", "t", "a", "p", "i">>) THEN {"FastAPI"} ELSE {})

FirstOfSet(names) == IF "Django" \in names THEN "Django" ELSE "FastAPI"
LastOfSet(names) == IF "FastAPI" \in names THEN "FastAPI" ELSE "Django"

\* the framework after the lines of requirements.txt, when the last line
\* with a framework name decides for the file, and in that line the first
\* of its names (firstInLine) or the last of them
FrameworkOfFile(firstInLine) ==
    LET lines == RootEntry(path[1].fs, s_requirements_txt)[1].lines
        hits == {i \in 1..Len(lines) : Names(lines[i]) # {}}
        before == analyze_environment_and_deps(
                      WithoutEntry(path[1].fs, s_requirements_txt)).env.framework
        names == Names(lines[CHOOSE i \in hits : \A j \in hits : j <= i])
    IN  IF hits = {} THEN before
        ELSE IF firstInLine THEN FirstOfSet(names) ELSE LastOfSet(names)

\* the last line with a framework name decides, and in a line with both
\* names FastAPI, which is tested last
LastTestOfLastLineWins ==
    envdeps # None /\ CanOpen(path[1].fs, s_requirements_txt) =>
        envdeps[1].env.framework = FrameworkOfFile(FALSE)

\* C19: in a line of requirements.txt the first framework name that matches,
\* django before fastapi, is the framework of the line, and the framework
\* of the last line with a match is the framework of the file.
C19_FirstMatchPerLineLastLineWins ==
    envdeps # None /\ CanOpen(path[1].fs, s_requirements_txt) =>
        envdeps[1].env.framework = FrameworkOfFile(TRUE)

\* the tree below node has a file node at the path parts, a sequence of names
RECURSIVE HasFileNode(_, _)
HasFileNode(node, parts) ==
    /\ node.type = "folder"
    /\ \E i \in 1..Len(node.children[1]) :
        LET c == node.children[1][i]
        IN  /\ c.name = Head(parts)
            /\ IF Len(parts) = 1 THEN c.type = "file" ELSE HasFileNode(c, Tail(parts))

\* a name of the path is hidden or is __pycache__
UnderSkippedName(parts) ==
    \E i \in 1..Len(parts) : parts[i][1] = "." \/ parts[i] = <<"_", "_", "p", "y", "c", "a", "c", "h", "e", "_", "_">>

\* the findings are about files of the tree, but for those below a hidden
\* directory or a __pycache__ directory, which the scanner reads and the
\* walker leaves out
FindingsInTreeOrSkippedDirectory ==
    structure # None /\ security # None =>
        \A i \in 1..Len(security[1]) :
            LET parts == Split(security[1][i].file, <<"/">>)
            IN  HasFileNode(structure[1], parts) \/ UnderSkippedName(parts)

\* C20: the file of every security finding is a file node of the tree of
\* the same run, so no finding comes from inside a hidden directory or a
\* __pycache__ directory.
C20_FindingsAreAboutFilesOfTheTree ==
    structure # None /\ security # None =>
        \A i \in 1..Len(security[1]) :
            LET parts == Split(security[1][i].file, <<"/">>)
            IN  /\ HasFileNode(structure[1], parts)
                /\ ~UnderSkippedName(parts)

DependencyFields == {"name", "version", "type", "is_deprecated"}

\* the record has the four fields, the flag a boolean
WholeDependency(d) == DOMAIN d = DependencyFields /\ d.is_deprecated \in BOOLEAN

\* the records of package.json have the four fields, the records of
\* requirements.txt have name, version and type and no flag
PythonRecordsHaveNoFlag ==
    envdeps # None =>
        \A k \in 1..Len(envdeps[1].deps) :
            IF k <= Len(JsRecords) THEN WholeDependency(envdeps[1].deps[k])
            ELSE DOMAIN envdeps[1].deps[k] = DependencyFields \ {"is_deprecated"}

\* C21: every dependency record the detector returns, and every one of the
\* assembled profile, has the fields name, version, kind and the boolean
\* staleness flag, whichever manifest it came from.
C21_EveryDependencyHasFourFields ==
    /\ envdeps # None =>
        \A k \in 1..Len(envdeps[1].deps) : WholeDependency(envdeps[1].deps[k])
    /\ result # None =>
        \A k \in 1..Len(result[1].dependencies) : WholeDependency(result[1].dependencies[k])

\* Django and FastAPI come with Python only, and without a language there
\* is no framework
PythonFrameworksWithPythonOnly ==
    envdeps # None =>
        LET env == envdeps[1].env
        IN  /\ env.framework \in {"Django", "FastAPI"} => env.language = "Python"
            /\ env.language = "Unknown" => env.framework = "Unknown"
            /\ env.language = "JavaScript/TypeScript" =>
                env.framework \in {"Next.js", "React", "Unknown"}

\* C22: the framework fits the language: Next.js and React with
\* JavaScript/TypeScript only, Django and FastAPI with Python only, Unknown
\* when the language is Unknown.
C22_FrameworkFitsLanguage ==
    envdeps # None =>
        LET env == envdeps[1].env
        IN  /\ env.framework \in {"Next.js", "React"} => env.language = "JavaScript/TypeScript"
            /\ env.framework \in {"Django", "FastAPI"} => env.language = "Python"
            /\ env.language = "Unknown" => env.framework = "Unknown"
====
